---- MODULE Spec2Model ----
(***************************************************************************)
(* Model of DatabaseManager (src/DatabaseManager.js): a promise based      *)
(* key-value adapter over the host's IndexedDB engine.                     *)
(*                                                                         *)
(* JavaScript primitives are written as the text of their literal:         *)
(* "'a'" is the string 'a', "''" the empty string, "0" and "7" numbers,    *)
(* "null" and "undefined" the two empty values.  A stored object {k, v}    *)
(* is the record [k |-> ..., v |-> ...] of two such literals.  A value a   *)
(* promise resolves to is a tagged record (Prim or Obj) so that a stored   *)
(* object and a primitive can be told apart.                               *)
(***************************************************************************)
EXTENDS Naturals, Sequences, FiniteSets

\* ------------------------------------------------------------------ bounds
\* number of operations the concurrent caller invokes without awaiting
MaxOps == 3
\* longest entries array handed to setAll
MaxBatch == 2
\* number of failures the engine reports in one behaviour
MaxFaults == 1

\* -------------------------------------------------------------- JS values
StringLits == {"'a'", "'b'", "'x'", "''", "' '"}
NumberLits == {"0", "7"}
Undefined == "undefined"
Null == "null"

\* typeof v
TypeOf(v) ==
    IF v \in StringLits THEN "string"
    ELSE IF v \in NumberLits THEN "number"
    ELSE IF v = Undefined THEN "undefined"
    ELSE "object"

\* ToBoolean(v): the values `&&` and `||` treat as false
Falsy == {"0", "''", "false", Null, Undefined}
Truthy(v) == v \notin Falsy

\* key.trim(): the literals of the model that consist of white space only
TrimIsEmpty(key) == key \in {"''", "' '"}

Prim(p) == [tag |-> "prim", k |-> "", v |-> p]
Obj(o) == [tag |-> "obj", k |-> o.k, v |-> o.v]

\* ------------------------------------------------------ arguments of calls
GetKeys == {"'a'", "'b'"}
\* values a caller stores: a truthy one and two falsy ones
StoredValues == {"'x'", "0", Null}
\* arguments of set, the ones its validation refuses included
SetKeys == {"'a'", "''", "' '", "7"}
SetValues == {"'x'", Undefined}
\* the {key, value} entries of setAll; key "undefined" is an entry without key
EntryArgs == {[key |-> "'a'", value |-> "'x'"], [key |-> "'a'", value |-> "0"],
              [key |-> "'b'", value |-> "'x'"], [key |-> Undefined, value |-> "'x'"]}
RECURSIVE SeqsUpTo(_, _)
SeqsUpTo(S, n) ==
    IF n = 0 THEN {<<>>}
    ELSE LET shorter == SeqsUpTo(S, n - 1)
         IN  shorter \cup {Append(s, e) : s \in {t \in shorter : Len(t) = n - 1}, e \in S}
Batches == SeqsUpTo(EntryArgs, MaxBatch)

\* ------------------------------------------------------- the host's engine
\* keys the engine accepts (numbers and strings of the model), in the
\* engine's ascending order: numbers before strings, strings by code unit
KeyOrder == <<"0", "7", "''", "' '", "'a'", "'b'", "'x'">>
ValidKeys == {KeyOrder[i] : i \in 1..Len(KeyOrder)}
IsValidKey(key) == key \in ValidKeys
KeyRank(key) == CHOOSE i \in 1..Len(KeyOrder) : KeyOrder[i] = key
KeyLess(a, b) == KeyRank(a) < KeyRank(b)

NoStore == [name |-> "", keyPath |-> ""]

\* evaluating the store's key path on a stored object {k, v}
ExtractKey(o, path) == IF path = "k" THEN o.k ELSE IF path = "v" THEN o.v ELSE Undefined

RECURSIVE StorePut(_, _)
\* IDBObjectStore.put: replace the record with the same key, keep key order
StorePut(recs, o) ==
    IF recs = <<>> THEN <<o>>
    ELSE IF Head(recs).k = o.k THEN <<o>> \o Tail(recs)
    ELSE IF KeyLess(o.k, Head(recs).k) THEN <<o>> \o recs
    ELSE <<Head(recs)>> \o StorePut(Tail(recs), o)

\* IDBObjectStore.delete
StoreDelete(recs, key) == SelectSeq(recs, LAMBDA o : o.k # key)

\* IDBObjectStore.get: the record, or undefined
HasRecord(recs, key) == \E i \in 1..Len(recs) : recs[i].k = key
StoreGet(recs, key) == recs[CHOOSE i \in 1..Len(recs) : recs[i].k = key]

\* IDBObjectStore.getAllKeys and getAll
StoreGetAllKeys(recs) == [i \in 1..Len(recs) |-> recs[i].k]
StoreGetAll(recs) == recs

VARIABLES
    host,        \* "browser", "noIndexedDB" (window without indexedDB), "noWindow"
    storeName,   \* this.storeName
    keyPath,     \* this.keyPath
    db,          \* this.db: "null" or "conn"
    ready,       \* this.ready
    initPc,      \* position of init(): new, opening, upgrading, upgraded, open, failed
    initPromise, \* promise of init(): none, pending, resolved, rejected
    initError,   \* message init() rejected with
    idbVersion,  \* version of the database in the engine, 0 when it does not exist
    idbStore,    \* the object store of the database, NoStore when there is none
    records,     \* the records of the store, in key order
    txns,        \* live transactions of the connection, in creation order
    ops,         \* the calls the caller has made
    faults       \* failures the engine has reported

vars == <<host, storeName, keyPath, db, ready, initPc, initPromise, initError,
          idbVersion, idbStore, records, txns, ops, faults>>

config == <<host, storeName, keyPath>>
adapter == <<db, ready, initPc, initPromise, initError>>
engine == <<idbVersion, idbStore, records, txns>>

\* this.version (constructor default)
version == 1

\* constructor, in a host where the database may or may not exist yet
Init ==
    /\ host \in {"browser", "noIndexedDB", "noWindow"}
    /\ storeName \in {"s", "myStore"}
    /\ keyPath \in {"k", "id"}
    /\ db = "null"
    /\ ready = FALSE
    /\ initPc = "new"
    /\ initPromise = "none"
    /\ initError = ""
    /\ idbVersion \in {0, version}
    /\ idbStore = IF idbVersion = 0 THEN NoStore ELSE [name |-> storeName, keyPath |-> keyPath]
    /\ records = <<>>
    /\ txns = <<>>
    /\ ops = <<>>
    /\ faults = 0

\* ------------------------------------------------------------------ init()
\* init(): the executor up to indexedDB.open
CallInit ==
    /\ initPc = "new"
    /\ IF host = "noIndexedDB"
       THEN /\ initPc' = "failed"
            /\ initPromise' = "rejected"
            /\ initError' = "IndexedDB not supported"
       ELSE IF host = "noWindow"
       THEN \* indexedDB is undefined: indexedDB.open throws inside the executor
            /\ initPc' = "failed"
            /\ initPromise' = "rejected"
            /\ initError' = "TypeError"
       ELSE /\ initPc' = "opening"
            /\ initPromise' = "pending"
            /\ initError' = ""
    /\ UNCHANGED <<config, db, ready, engine, ops, faults>>

\* request.onerror: the engine fails the open request, or aborts the upgrade
\* transaction and with it the creation of the store
OpenError ==
    /\ initPc \in {"opening", "upgrading"}
    /\ faults < MaxFaults
    /\ faults' = faults + 1
    /\ initPc' = "failed"
    /\ initPromise' = "rejected"
    /\ initError' = "IndexedDB request error"
    /\ IF initPc = "upgrading"
       THEN idbStore' = NoStore /\ idbVersion' = 0
       ELSE UNCHANGED <<idbStore, idbVersion>>
    /\ UNCHANGED <<config, db, ready, records, txns, ops>>

\* request.onupgradeneeded
OpenUpgradeNeeded ==
    /\ initPc = "opening"
    /\ idbVersion < version
    /\ db' = "null"
    /\ idbStore' = [name |-> storeName, keyPath |-> keyPath]
    /\ idbVersion' = version
    /\ initPc' = "upgrading"
    /\ UNCHANGED <<config, ready, initPromise, initError, records, txns, ops, faults>>

\* store.transaction.oncomplete
UpgradeComplete ==
    /\ initPc = "upgrading"
    /\ db' = "conn"
    /\ initPromise' = "resolved"
    /\ initPc' = "upgraded"
    /\ UNCHANGED <<config, ready, initError, engine, ops, faults>>

\* request.onsuccess
OpenSuccess ==
    /\ \/ initPc = "opening" /\ idbVersion = version
       \/ initPc = "upgraded"
    /\ db' = "conn"
    /\ ready' = TRUE
    /\ initPromise' = "resolved"
    /\ initPc' = "open"
    /\ UNCHANGED <<config, initError, engine, ops, faults>>

\* ------------------------------------------------------------- operations
Call(kind, key, value, entries) ==
    [kind |-> kind, key |-> key, value |-> value, entries |-> entries]

\* the calls of a caller working on single records
CallsKV ==
    {Call("get", key, "", <<>>) : key \in GetKeys}
    \cup {Call("set", key, value, <<>>) : key \in GetKeys, value \in StoredValues}
    \cup {Call("delete", key, "", <<>>) : key \in GetKeys}
    \cup {Call(kind, "", "", <<>>) : kind \in {"list", "getAll", "clear"}}

\* the calls of a caller handing set arguments of every kind
CallsSet ==
    {Call("set", key, value, <<>>) : key \in SetKeys, value \in SetValues}
    \cup {Call("list", "", "", <<>>)}

\* the calls of a caller racing on one key
CallsRace ==
    {Call("set", "'a'", value, <<>>) : value \in {"'x'", "0"}}
    \cup {Call("get", "'a'", "", <<>>), Call("delete", "'a'", "", <<>>)}

\* the calls of a caller writing in bulk and reading back
CallsBulk ==
    {Call("setAll", "", "", entries) : entries \in Batches}
    \cup {Call("get", key, "", <<>>) : key \in GetKeys}

Pending(o) == o.status \in {"polling", "running"}
Settled(o) == o.status \in {"resolved", "rejected"}

\* the promise of call c, not yet past the first statement of its method;
\* pre and post are the records its transaction started and ended on, done
\* says that the call has no transaction left, waited that _waitForDB()
\* found this.db unset and started its interval
NewOp(c) ==
    [kind |-> c.kind, key |-> c.key, value |-> c.value, entries |-> c.entries,
     status |-> "polling", err |-> "", val |-> Prim(Undefined), arr |-> <<>>,
     opened |-> FALSE, done |-> FALSE, waited |-> FALSE, pre |-> <<>>, post |-> <<>>]

\* reject and resolve of a promise: the first settlement stays
Reject(o, message) ==
    IF Pending(o) THEN [o EXCEPT !.status = "rejected", !.err = message] ELSE o
Resolve(o) ==
    IF Pending(o) THEN [o EXCEPT !.status = "resolved"] ELSE o
ResolveVal(o, v) ==
    IF Pending(o) THEN [o EXCEPT !.status = "resolved", !.val = v] ELSE o
ResolveArr(o, a) ==
    IF Pending(o) THEN [o EXCEPT !.status = "resolved", !.arr = a] ELSE o

\* set, were the key checked with key === '' instead of key.trim() === ''
SetValidationNoTrim(key, value) ==
    IF TypeOf(key) # "string" \/ key = "''" THEN "Invalid key"
    ELSE IF value = Undefined THEN "Value cannot be undefined"
    ELSE ""

\* set: the two checks in front of the readiness gate; "" when both pass
SetValidation(key, value) ==
    IF TypeOf(key) # "string" \/ TrimIsEmpty(key) THEN "Invalid key"
    ELSE IF value = Undefined THEN "Value cannot be undefined"
    ELSE ""

\* the name every method passes to db.transaction and txn.objectStore
OpStoreName == "s"
\* the stored object a put of (key, value) writes
OpRecord(key, value) == [k |-> key, v |-> value]

\* db.transaction(name) throws NotFoundError unless the store exists
TransactionThrows(name) == idbStore = NoStore \/ idbStore.name # name
\* store.put(o) throws DataError unless the key path yields a valid key
PutThrows(o) == ~IsValidKey(ExtractKey(o, idbStore.keyPath))

Request(type, key, obj) == [type |-> type, key |-> key, obj |-> obj]
NoObj == [k |-> "", v |-> ""]

\* the entries array of a write: set puts one record, setAll one per entry
EntriesOf(o) ==
    IF o.kind = "set" THEN <<[key |-> o.key, value |-> o.value]>> ELSE o.entries

RECURSIVE PutsBeforeThrow(_)
\* entries.forEach(put): the requests issued until a put throws
PutsBeforeThrow(entries) ==
    IF entries = <<>> THEN <<>>
    ELSE LET o == OpRecord(Head(entries).key, Head(entries).value)
         IN  IF PutThrows(o) THEN <<>>
             ELSE <<Request("put", o.k, o)>> \o PutsBeforeThrow(Tail(entries))

AnyPutThrows(o) ==
    \E i \in 1..Len(EntriesOf(o)) :
        PutThrows(OpRecord(EntriesOf(o)[i].key, EntriesOf(o)[i].value))

IsWrite(kind) == kind \in {"set", "setAll"}
ModeOf(kind) == IF kind \in {"get", "list", "getAll"} THEN "readonly" ELSE "readwrite"

\* the requests, were the body of clear a copy of list's: getAllKeys()
RequestsOfClearCopied(o) ==
    IF IsWrite(o.kind) THEN PutsBeforeThrow(EntriesOf(o))
    ELSE IF o.kind = "get" THEN <<Request("get", o.key, NoObj)>>
    ELSE IF o.kind = "delete" THEN <<Request("delete", o.key, NoObj)>>
    ELSE IF o.kind = "getAll" THEN <<Request("getAll", "", NoObj)>>
    ELSE <<Request("getAllKeys", "", NoObj)>>

\* the requests the executor of a method issues on its transaction
RequestsOf(o) ==
    IF IsWrite(o.kind) THEN PutsBeforeThrow(EntriesOf(o))
    ELSE IF o.kind = "get" THEN <<Request("get", o.key, NoObj)>>
    ELSE IF o.kind = "delete" THEN <<Request("delete", o.key, NoObj)>>
    ELSE IF o.kind = "list" THEN <<Request("getAllKeys", "", NoObj)>>
    ELSE IF o.kind = "getAll" THEN <<Request("getAll", "", NoObj)>>
    ELSE <<Request("clear", "", NoObj)>>

\* the transaction the executor of call number i leaves behind; committing
\* says that txn.commit() was reached
Txn(i, o) ==
    [op |-> i, mode |-> ModeOf(o.kind), reqs |-> RequestsOf(o),
     committing |-> IsWrite(o.kind) /\ ~AnyPutThrows(o),
     started |-> FALSE, undo |-> <<>>]

\* the promise after its executor ran (the part behind `await _waitForDB()`)
EnterOp(o) ==
    IF TransactionThrows(OpStoreName)
    THEN [Reject(o, "NotFoundError") EXCEPT !.done = TRUE, !.pre = records, !.post = records]
    ELSE IF IsWrite(o.kind) /\ AnyPutThrows(o)
    THEN [Reject(o, "DataError") EXCEPT !.opened = TRUE, !.pre = records]
    ELSE [o EXCEPT !.status = "running", !.opened = TRUE, !.pre = records]

EnterTxns(i, o) ==
    IF TransactionThrows(OpStoreName) THEN <<>> ELSE <<Txn(i, o)>>

\* Begin without the gate: the executor runs whether or not this.db is set
BeginNoGate(i, c) ==
    LET o == NewOp(c)
        message == IF c.kind = "set" THEN SetValidation(c.key, c.value) ELSE ""
    IN  IF message # ""
        THEN [op |-> [Reject(o, message) EXCEPT !.done = TRUE, !.pre = records,
                                                !.post = records],
              txns |-> <<>>]
        ELSE [op |-> EnterOp(o), txns |-> EnterTxns(i, o)]

\* the first statements of a method: set validates, then every method
\* evaluates _waitForDB() and, when this.db is set, runs its executor
Begin(i, c) ==
    LET o == NewOp(c)
        message == IF c.kind = "set" THEN SetValidation(c.key, c.value) ELSE ""
    IN  IF message # ""
        THEN [op |-> [Reject(o, message) EXCEPT !.done = TRUE, !.pre = records,
                                                !.post = records],
              txns |-> <<>>]
        ELSE IF db = "null" THEN [op |-> [o EXCEPT !.waited = TRUE], txns |-> <<>>]
        ELSE [op |-> EnterOp(o), txns |-> EnterTxns(i, o)]

\* Invoke with the new transaction put ahead of the ones created before
InvokeTxnFirst(c) ==
    /\ Len(ops) < MaxOps
    /\ LET b == Begin(Len(ops) + 1, c)
       IN  /\ ops' = Append(ops, b.op)
           /\ txns' = b.txns \o txns
    /\ UNCHANGED <<config, adapter, idbVersion, idbStore, records, faults>>

\* a call made without awaiting the earlier ones
Invoke(c) ==
    /\ Len(ops) < MaxOps
    /\ LET b == Begin(Len(ops) + 1, c)
       IN  /\ ops' = Append(ops, b.op)
           /\ txns' = txns \o b.txns
    /\ UNCHANGED <<config, adapter, idbVersion, idbStore, records, faults>>

\* a call made once every earlier call has settled
InvokeAwaited(c) ==
    /\ \A i \in 1..Len(ops) : Settled(ops[i])
    /\ Invoke(c)

\* _waitForDB: the interval callback of a waiting call finds this.db set
Poll(i) ==
    /\ i \in 1..Len(ops)
    /\ ops[i].status = "polling"
    /\ db # "null"
    /\ ops' = [ops EXCEPT ![i] = EnterOp(ops[i])]
    /\ txns' = txns \o EnterTxns(i, ops[i])
    /\ UNCHANGED <<config, adapter, idbVersion, idbStore, records, faults>>

\* ----------------------------------------- the engine runs transactions
\* the engine starts transactions with overlapping scope in creation order:
\* a read-write one waits for every earlier one, a read-only one for the
\* earlier read-write ones
Runnable(t) ==
    IF txns[t].mode = "readwrite" THEN t = 1
    ELSE \A u \in 1..(t - 1) : txns[u].mode = "readonly"

RemoveTxn(t) == SubSeq(txns, 1, t - 1) \o SubSeq(txns, t + 1, Len(txns))

\* the records after the engine carried out request r
Apply(recs, r) ==
    IF r.type = "put" THEN StorePut(recs, r.obj)
    ELSE IF r.type = "delete" THEN StoreDelete(recs, r.key)
    ELSE IF r.type = "clear" THEN <<>>
    ELSE recs

\* get: (event.target.result && event.target.result['v']) || null
GetResult(recs, key) ==
    IF HasRecord(recs, key) /\ Truthy(StoreGet(recs, key).v)
    THEN StoreGet(recs, key).v ELSE Null

\* list: event.target.result || []
ListResult(recs) == [i \in 1..Len(recs) |-> Prim(StoreGetAllKeys(recs)[i])]

\* getAll: event.target.result || []
GetAllResult(recs) == [i \in 1..Len(recs) |-> Obj(StoreGetAll(recs)[i])]

\* request.onsuccess of the methods that listen on their request
OnSuccess(o, recs) ==
    IF o.kind = "get" THEN ResolveVal(o, Prim(GetResult(recs, o.key)))
    ELSE IF o.kind = "list" THEN ResolveArr(o, ListResult(recs))
    ELSE IF o.kind = "getAll" THEN ResolveArr(o, GetAllResult(recs))
    ELSE IF o.kind \in {"delete", "clear"} THEN Resolve(o)
    ELSE o

\* request.onerror (get, delete, list, getAll, clear) and, as the error
\* event bubbles, txn.onerror (set, setAll)
ErrorMessage(kind) ==
    IF kind = "get" THEN "Error getting the value from IndexedDB"
    ELSE IF kind = "set" THEN "Error setting the value in IndexedDB"
    ELSE IF kind = "delete" THEN "Error deleting the value from IndexedDB"
    ELSE IF kind = "list" THEN "Error listing keys from IndexedDB"
    ELSE IF kind = "getAll" THEN "Error getting all values from IndexedDB"
    ELSE IF kind = "clear" THEN "Error clearing the object store in IndexedDB"
    ELSE "Error setting values in IndexedDB"
OnError(o) == Reject(o, ErrorMessage(o.kind))

\* txn.oncomplete: only set and setAll listen
OnComplete(o) == IF IsWrite(o.kind) THEN Resolve(o) ELSE o

\* the engine carries out the next request of a transaction and fires
\* success, or reports an error for it and aborts the transaction
ProcessRequest(t, ok) ==
    /\ t \in 1..Len(txns)
    /\ txns[t].reqs # <<>>
    /\ Runnable(t)
    /\ LET txn == txns[t]
           r == Head(txn.reqs)
           base == IF txn.started THEN txn.undo ELSE records
           o == [ops[txn.op] EXCEPT !.pre = base]
       IN  IF ok
           THEN /\ records' = Apply(records, r)
                /\ txns' = [txns EXCEPT ![t] = [@ EXCEPT !.reqs = Tail(txn.reqs),
                                                         !.started = TRUE, !.undo = base]]
                /\ ops' = [ops EXCEPT ![txn.op] = OnSuccess(o, records)]
                /\ faults' = faults
           ELSE /\ faults < MaxFaults
                /\ faults' = faults + 1
                /\ records' = base
                /\ txns' = RemoveTxn(t)
                /\ ops' = [ops EXCEPT ![txn.op] =
                             [OnError(o) EXCEPT !.done = TRUE, !.post = base]]
    /\ UNCHANGED <<config, adapter, idbVersion, idbStore>>

\* a transaction without pending requests commits and fires complete, or
\* the commit of its writes fails and it fires abort (nobody listens)
Commit(t, ok) ==
    /\ t \in 1..Len(txns)
    /\ txns[t].reqs = <<>>
    /\ Runnable(t)
    /\ LET txn == txns[t]
           base == IF txn.started THEN txn.undo ELSE records
           o == [ops[txn.op] EXCEPT !.pre = base, !.done = TRUE]
       IN  IF ok
           THEN /\ records' = records
                /\ ops' = [ops EXCEPT ![txn.op] = OnComplete([o EXCEPT !.post = records])]
                /\ faults' = faults
           ELSE /\ txn.mode = "readwrite" /\ txn.started
                /\ faults < MaxFaults
                /\ faults' = faults + 1
                /\ records' = base
                /\ ops' = [ops EXCEPT ![txn.op] = [o EXCEPT !.post = base]]
    /\ txns' = RemoveTxn(t)
    /\ UNCHANGED <<config, adapter, idbVersion, idbStore>>

\* ---------------------------------------------------------- specifications
InitStep == CallInit \/ OpenUpgradeNeeded \/ UpgradeComplete \/ OpenSuccess
\* the engine, reporting no failure
EngineStep == \E t \in 1..MaxOps : ProcessRequest(t, TRUE) \/ Commit(t, TRUE)
\* the engine, reporting up to MaxFaults failures
EngineFault == OpenError \/ \E t \in 1..MaxOps : ProcessRequest(t, FALSE) \/ Commit(t, FALSE)

\* a caller that makes up to MaxOps calls without awaiting any
Next ==
    \/ InitStep
    \/ \E c \in CallsRace : Invoke(c)
    \/ \E i \in 1..MaxOps : Poll(i)
    \/ EngineStep
    \/ EngineFault
Spec == Init /\ [][Next]_vars

\* a caller that awaits each call before making the next, on single records
NextAwait ==
    \/ InitStep
    \/ \E c \in CallsKV : InvokeAwaited(c)
    \/ \E i \in 1..MaxOps : Poll(i)
    \/ EngineStep
SpecAwait == Init /\ [][NextAwait]_vars

\* a caller that awaits each call, handing set arguments of every kind
NextSet ==
    \/ InitStep
    \/ \E c \in CallsSet : InvokeAwaited(c)
    \/ \E i \in 1..MaxOps : Poll(i)
    \/ EngineStep
SpecSet == Init /\ [][NextSet]_vars

\* a caller that awaits each call, writing in bulk
NextBulk ==
    \/ InitStep
    \/ \E c \in CallsBulk : InvokeAwaited(c)
    \/ \E i \in 1..MaxOps : Poll(i)
    \/ EngineStep
SpecBulk == Init /\ [][NextBulk]_vars

\* a caller that awaits each call, with an engine that may report failures
NextFaulty ==
    \/ InitStep
    \/ \E c \in CallsRace : InvokeAwaited(c)
    \/ \E i \in 1..MaxOps : Poll(i)
    \/ EngineStep
    \/ EngineFault
SpecFaulty == Init /\ [][NextFaulty]_vars

\* calls made around init(): the interval of _waitForDB keeps firing every
\* 50 ms, so a waiting call that finds this.db set for good is let through
CallsGate == {Call("get", "'a'", "", <<>>), Call("set", "'a'", "'x'", <<>>)}
NextGate ==
    \/ InitStep
    \/ OpenError
    \/ \E c \in CallsGate : Invoke(c)
    \/ \E i \in 1..MaxOps : Poll(i)
    \/ EngineStep
SpecGate ==
    /\ Init /\ [][NextGate]_vars
    /\ \A i \in 1..MaxOps : WF_vars(Poll(i))

\* a caller that awaits each call and hands set and setAll keys and values of
\* every kind: setAll takes whatever entries it is given
RawEntryArgs == {[key |-> "''", value |-> "'x'"], [key |-> "7", value |-> "'x'"],
                 [key |-> "'a'", value |-> Undefined]}
CallsRaw ==
    {Call("set", key, value, <<>>) : key \in SetKeys, value \in SetValues}
    \cup {Call("setAll", "", "", entries) : entries \in SeqsUpTo(RawEntryArgs, MaxBatch)}
NextRaw ==
    \/ InitStep
    \/ \E c \in CallsRaw : InvokeAwaited(c)
    \/ \E i \in 1..MaxOps : Poll(i)
    \/ EngineStep
SpecRaw == Init /\ [][NextRaw]_vars

\* a caller that writes one key twice and more, awaiting nothing, around
\* init(); the engine may fail a commit
CallsOrder ==
    {Call("set", "'a'", value, <<>>) : value \in {"'x'", "0"}}
    \cup {Call("get", "'a'", "", <<>>)}
NextOrder ==
    \/ InitStep
    \/ \E c \in CallsOrder : Invoke(c)
    \/ \E i \in 1..MaxOps : Poll(i)
    \/ EngineStep
    \/ \E t \in 1..MaxOps : Commit(t, FALSE)
SpecOrder == Init /\ [][NextOrder]_vars

\* ------------------------------------------------------------ properties
Reads == {"get", "list", "getAll"}
\* no call between call i and call j writes
Quiet(i, j) == \A m \in (i + 1)..(j - 1) : ops[m].kind \in Reads
CountOf(recs, key) == Cardinality({x \in 1..Len(recs) : recs[x].k = key})

EntryKeys(o) == {EntriesOf(o)[i].key : i \in 1..Len(EntriesOf(o))}
\* the value of the last entry of a write with the given key
LastValue(o, key) ==
    LET idx == {i \in 1..Len(EntriesOf(o)) : EntriesOf(o)[i].key = key}
        last == CHOOSE i \in idx : \A j \in idx : j <= i
    IN  EntriesOf(o)[last].value

\* call o may change the record of key
Touches(o, key) ==
    \/ o.kind \in {"set", "delete"} /\ o.key = key
    \/ o.kind = "clear"
    \/ o.kind = "setAll" /\ key \in EntryKeys(o)

\* C1: once set(k, v) has resolved, a following get(k) resolves to exactly v,
\* for every stored value v, the falsy ones (null, 0) included
RoundTrip ==
    \A i, j \in 1..Len(ops) :
        ( /\ i < j /\ Quiet(i, j)
          /\ ops[i].kind = "set" /\ ops[i].status = "resolved"
          /\ ops[j].kind = "get" /\ ops[j].key = ops[i].key
          /\ Settled(ops[j]) )
        => /\ ops[j].status = "resolved"
           /\ ops[j].val = Prim(ops[i].value)

\* C2: with every store name and key field given to the constructor, the
\* operations work on the configured collection: after init() a set(k, v)
\* succeeds and a following get(k) returns the (truthy) v
ConfiguredStoreUsed ==
    \A i \in 1..Len(ops) :
        (ops[i].kind = "set" /\ Settled(ops[i]))
        => /\ ops[i].status = "resolved"
           /\ \A j \in 1..Len(ops) :
                ( /\ i < j /\ Quiet(i, j) /\ Truthy(ops[i].value)
                  /\ ops[j].kind = "get" /\ ops[j].key = ops[i].key
                  /\ Settled(ops[j]) )
                => ops[j].status = "resolved" /\ ops[j].val = Prim(ops[i].value)

\* C3: last write wins: after set(k, v1) and then set(k, v2) have resolved,
\* get(k) returns v2 and the collection holds exactly one record for k
LastWriteWins ==
    \A i, j, m \in 1..Len(ops) :
        ( /\ i < j /\ j < m /\ Quiet(i, j) /\ Quiet(j, m)
          /\ ops[i].kind = "set" /\ ops[i].status = "resolved"
          /\ ops[j].kind = "set" /\ ops[j].status = "resolved"
          /\ ops[j].key = ops[i].key
          /\ ops[m].kind = "get" /\ ops[m].key = ops[i].key
          /\ Settled(ops[m]) )
        => /\ ops[m].status = "resolved"
           /\ ops[m].val = Prim(ops[j].value)
           /\ CountOf(ops[m].pre, ops[m].key) = 1

\* the key of get number j was never written, or the last call before j that
\* touches it is a resolved delete or clear
AbsentExpected(j) ==
    LET touching == {m \in 1..(j - 1) : Touches(ops[m], ops[j].key)}
    IN  \/ touching = {}
        \/ LET last == CHOOSE m \in touching : \A n \in touching : n <= m
           IN  ops[last].kind \in {"delete", "clear"} /\ ops[last].status = "resolved"

\* C4: after init() succeeded, get(k) for a key never written, or deleted or
\* cleared since its last write, resolves to null and never rejects
AbsentKeyGetsNull ==
    \A j \in 1..Len(ops) :
        ( /\ initPromise = "resolved"
          /\ ops[j].kind = "get" /\ Settled(ops[j])
          /\ AbsentExpected(j) )
        => ops[j].status = "resolved" /\ ops[j].val = Prim(Null)

\* C5: delete(k) on a key without record resolves and leaves the collection
\* unchanged; a second delete(k) resolves too and leaves the collection as
\* the first one left it, the records of the other keys untouched
DeleteIdempotent ==
    /\ \A i \in 1..Len(ops) :
         ( /\ ops[i].kind = "delete" /\ Settled(ops[i]) /\ ops[i].done
           /\ ~HasRecord(ops[i].pre, ops[i].key) )
         => ops[i].status = "resolved" /\ ops[i].post = ops[i].pre
    /\ \A i, j \in 1..Len(ops) :
         ( /\ i < j /\ Quiet(i, j)
           /\ ops[i].kind = "delete" /\ Settled(ops[i]) /\ ops[i].done
           /\ ops[j].kind = "delete" /\ Settled(ops[j]) /\ ops[j].done
           /\ ops[j].key = ops[i].key )
         => /\ ops[i].status = "resolved" /\ ops[j].status = "resolved"
            /\ ops[j].post = ops[i].post
            /\ ops[i].post = StoreDelete(ops[i].pre, ops[i].key)

\* C6: once clear() has resolved, a following list() resolves to an empty
\* sequence and a following getAll() resolves to an empty sequence
ClearThenEmpty ==
    \A i, j \in 1..Len(ops) :
        ( /\ i < j /\ Quiet(i, j)
          /\ ops[i].kind = "clear" /\ ops[i].status = "resolved"
          /\ ops[j].kind \in {"list", "getAll"} /\ Settled(ops[j]) )
        => ops[j].status = "resolved" /\ ops[j].arr = <<>>

\* C6: after writes, a clear() resolved on a collection that held records and
\* a following list() or getAll() resolved
ClearThenEmptyWitness ==
    \E i, j \in 1..Len(ops) :
        /\ i < j /\ Quiet(i, j)
        /\ ops[i].kind = "clear" /\ ops[i].status = "resolved"
        /\ ops[i].pre # <<>>
        /\ ops[j].kind \in {"list", "getAll"} /\ ops[j].status = "resolved"

\* every entry of write o is in recs, with the value of its last entry
AllPersisted(o, recs) ==
    \A key \in EntryKeys(o) :
        HasRecord(recs, key) /\ StoreGet(recs, key).v = LastValue(o, key)

\* C7: setAll is all-or-nothing: when it has settled and its transaction has
\* ended, either it resolved and every entry is persisted, or it rejected and
\* the collection equals its contents before the call
SetAllAtomic ==
    \A i \in 1..Len(ops) :
        (ops[i].kind = "setAll" /\ Settled(ops[i]) /\ ops[i].done)
        => /\ ops[i].status = "resolved" => AllPersisted(ops[i], ops[i].post)
           /\ ops[i].status = "rejected" => ops[i].post = ops[i].pre

\* C8: after setAll(entries) has resolved, get(key) returns the value of the
\* (last) entry with that key, for every key of the batch
BulkEntriesRetrievable ==
    \A i, j \in 1..Len(ops) :
        ( /\ i < j /\ Quiet(i, j)
          /\ ops[i].kind = "setAll" /\ ops[i].status = "resolved"
          /\ ops[j].kind = "get" /\ ops[j].key \in EntryKeys(ops[i])
          /\ Settled(ops[j]) )
        => /\ ops[j].status = "resolved"
           /\ ops[j].val = Prim(LastValue(ops[i], ops[j].key))

\* C9: getAll() resolves to the stored value fields, one per record, in the
\* order of the keys of list(): getAll()[i] equals get(list()[i])
GetAllMatchesList ==
    \A j \in 1..Len(ops) :
        (ops[j].kind = "getAll" /\ ops[j].status = "resolved")
        => LET keys == ListResult(ops[j].pre)
           IN  /\ Len(ops[j].arr) = Len(keys)
               /\ \A i \in 1..Len(keys) :
                    ops[j].arr[i] = Prim(GetResult(ops[j].pre, keys[i].v))

\* what the promise of a set call shows when its arguments were refused
\* with the given message as soon as the call was made
Refused(i, message) ==
    /\ ops[i].status = "rejected"
    /\ ops[i].err = message
    /\ ~ops[i].opened /\ ops[i].done /\ ops[i].post = ops[i].pre
    /\ \A t \in 1..Len(txns) : txns[t].op # i

\* C10 (as stated): set with a key that is not a non-empty string fails with
\* 'Invalid key', and set with a non-empty string key and the value undefined
\* fails with 'Value cannot be undefined'; the failure is there as soon as
\* the call is made, ready or not, without a transaction and with the
\* collection as it was
SetValidatesFirstAsStated ==
    \A i \in 1..Len(ops) :
        LET o == ops[i]
            badKey == TypeOf(o.key) # "string" \/ o.key = "''"
        IN  (o.kind = "set" /\ (badKey \/ o.value = Undefined))
            => Refused(i, IF badKey THEN "Invalid key" ELSE "Value cannot be undefined")

\* C10 (amended): set with a key that is not a string, or that is empty once
\* white space is trimmed, fails with 'Invalid key'; with any other key and
\* the value undefined it fails with 'Value cannot be undefined'; the
\* failure is there as soon as the call is made, ready or not, without a
\* transaction and with the collection as it was
SetValidatesFirst ==
    \A i \in 1..Len(ops) :
        LET o == ops[i]
            badKey == TypeOf(o.key) # "string" \/ o.key \in {"''", "' '"}
        IN  (o.kind = "set" /\ (badKey \/ o.value = Undefined))
            => Refused(i, IF badKey THEN "Invalid key" ELSE "Value cannot be undefined")

\* C10: while the adapter is not ready, a set with an empty key, a set with
\* a blank key and the value undefined, and a set with a good key and the
\* value undefined have all failed
SetValidatesFirstWitness ==
    /\ db = "null" /\ ~ready
    /\ \E i, j, m \in 1..Len(ops) :
         /\ ops[i].kind = "set" /\ ops[i].key = "''" /\ ops[i].err = "Invalid key"
         /\ ops[j].kind = "set" /\ ops[j].key = "'a'" /\ ops[j].value = Undefined
         /\ ops[j].err = "Value cannot be undefined"
         /\ ops[m].kind = "set" /\ ops[m].key = "' '" /\ ops[m].value = Undefined
         /\ ops[m].err = "Invalid key"

\* the call has reached the engine: db.transaction() was evaluated, and it
\* either returned a transaction or threw for a missing store
EngineCalled(o) == o.opened \/ o.err = "NotFoundError"

\* C11: readiness gate - on the direct and on the upgrade path of init(), a
\* call opens its transaction (passes _waitForDB) only while ReadyFlag is true
ReadinessGate ==
    [][\A i \in 1..MaxOps :
         (/\ i <= Len(ops')
          /\ EngineCalled(ops'[i])
          /\ (i > Len(ops) \/ ~EngineCalled(ops[i])))
         => ready]_vars

\* C12: whenever the promise of init() is resolved the store exists with the
\* configured key path, Connection is set and ReadyFlag is true
InitResolvesReady ==
    initPromise = "resolved" =>
        /\ idbStore # NoStore /\ idbStore.name = storeName /\ idbStore.keyPath = keyPath
        /\ db # "null"
        /\ ready

\* C13: no silent failure - whenever the engine reports the failure of a
\* transaction (a request error, or an abort at commit), the promise of the
\* call that opened it is rejected: not resolved, and not left pending with
\* no event to come
NoSilentFailure ==
    [][\A t \in 1..MaxOps :
         (/\ t <= Len(txns)
          /\ faults' = faults + 1
          /\ txns' = RemoveTxn(t))
         => ops'[txns[t].op].status = "rejected"]_vars

\* a resolved set has no transaction left, and that transaction ended
\* (committed) on records that hold the written value
SetResolvedAtCommit(i) ==
    /\ ops[i].done
    /\ \A t \in 1..Len(txns) : txns[t].op # i
    /\ HasRecord(ops[i].post, ops[i].key)
    /\ StoreGet(ops[i].post, ops[i].key).v = ops[i].value

\* C14: set resolves only once its read-write transaction has committed,
\* never for a transaction that failed, and a get(key) invoked after set
\* resolved (no write in between) observes the written value
SetDurableBeforeResolve ==
    \A i \in 1..Len(ops) :
        (ops[i].kind = "set" /\ ops[i].status = "resolved")
        => /\ SetResolvedAtCommit(i)
           /\ \A j \in (i + 1)..Len(ops) :
                ( /\ Quiet(i, j)
                  /\ ops[j].kind = "get" /\ ops[j].key = ops[i].key
                  /\ ops[j].status = "resolved" )
                => ops[j].val = Prim(ops[i].value)

\* the part of C14 on when set resolves, without what get hands back
SetResolvesOnlyCommitted ==
    \A i \in 1..Len(ops) :
        (ops[i].kind = "set" /\ ops[i].status = "resolved") => SetResolvedAtCommit(i)

\* once the engine has failed the open request: init() is rejected with
\* 'IndexedDB request error', the adapter is unready, and the calls waiting
\* at the gate have neither reached the engine nor settled
OpenErrorKeepsGateShut ==
    (host = "browser" /\ initPc = "failed")
    => /\ initPromise = "rejected" /\ initError = "IndexedDB request error"
       /\ db = "null" /\ ~ready
       /\ txns = <<>>
       /\ \A i \in 1..Len(ops) :
            ops[i].waited => ops[i].status = "polling" /\ ~EngineCalled(ops[i])

\* C15: an engine open error rejects init() with ConnectionError and leaves
\* Connection null, ReadyFlag false and every waiting call suspended for
\* good; once init() succeeded, every call waiting at the gate eventually
\* passes it and reaches the engine
GateAfterInit ==
    /\ []OpenErrorKeepsGateShut
    /\ \A i \in 1..MaxOps :
         (i <= Len(ops) /\ ops[i].status = "polling" /\ initPromise = "resolved")
         ~> (i <= Len(ops) /\ EngineCalled(ops[i]))

GateAfterInitWitness ==
    /\ initPromise = "rejected" /\ initError = "IndexedDB request error"
    /\ \E i \in 1..Len(ops) : ops[i].waited /\ ops[i].status = "polling"

\* C16: in a host without a storage engine - a window without indexedDB, or
\* no window at all - init() issues no open request, is rejected with
\* 'IndexedDB not supported', and leaves Connection null and ReadyFlag false
UnsupportedHostRejected ==
    host # "browser"
    => /\ initPc \in {"new", "failed"}
       /\ db = "null" /\ ~ready
       /\ initPc = "failed" =>
            initPromise = "rejected" /\ initError = "IndexedDB not supported"

\* C17: every record persisted by set or setAll (held by the store with no
\* transaction under way) has a key that is a non-empty string and a value
\* that is not undefined
StoredRecordsValid ==
    txns = <<>>
    => \A x \in 1..Len(records) :
         /\ TypeOf(records[x].k) = "string" /\ records[x].k # "''"
         /\ records[x].v # Undefined

\* C18: once the promise of init() is resolved, no call of a data operation
\* and no later engine callback changes Connection or ReadyFlag
ConnectionStateFrozen ==
    [][initPromise = "resolved" => (db' = db /\ ready' = ready)]_vars

\* the part of C18 on what is never lost: ReadyFlag does not return to false
\* and a Connection that is set stays the same handle
ReadyNeverLost ==
    [][(ready => ready') /\ (db # "null" => db' = db)]_vars

\* C19: ReadyFlag is true exactly when Connection is set, in every state
\* from construction through every step of init() on both paths
ReadyIffConnection == ready <=> db # "null"

\* among the calls numbered in S: transactions are created in the order of
\* the calls, and of two resolved set on one key, with no other writing
\* call, the value of the later call is the one stored once both are through
OrderKeptAmong(S) ==
    /\ \A t, u \in 1..Len(txns) :
         (t < u /\ txns[t].op \in S /\ txns[u].op \in S) => txns[t].op < txns[u].op
    /\ \A i, j \in S :
         ( /\ i < j
           /\ ops[i].kind = "set" /\ ops[j].kind = "set" /\ ops[i].key = ops[j].key
           /\ ops[i].status = "resolved" /\ ops[j].status = "resolved"
           /\ \A m \in 1..Len(ops) : m \notin {i, j} => ops[m].kind \in Reads )
         => /\ HasRecord(records, ops[j].key)
            /\ StoreGet(records, ops[j].key).v = ops[j].value

\* C20 as stated: invocation order is kept for every two calls, whether or
\* not they waited at the readiness gate
InvocationOrderKeptAsStated == OrderKeptAmong(1..Len(ops))

\* C20: invocation order is kept among the calls that found this.db set
\* when they were made: their transactions are created in call order, and
\* of set(k, v1) before set(k, v2) the stored value is v2
InvocationOrderKept == OrderKeptAmong({i \in 1..Len(ops) : ~ops[i].waited})

InvocationOrderKeptWitness ==
    \E i, j \in 1..Len(ops) :
        /\ i < j
        /\ ops[i].kind = "set" /\ ops[j].kind = "set" /\ ops[i].key = ops[j].key
        /\ ops[i].value # ops[j].value
        /\ ~ops[i].waited /\ ~ops[j].waited
        /\ ops[i].status = "resolved" /\ ops[j].status = "resolved"
        /\ \A m \in 1..Len(ops) : m \notin {i, j} => ops[m].kind \in Reads
        /\ StoreGet(records, ops[j].key).v = ops[j].value

====
